---- MODULE Spec2Model ----
(***************************************************************************)
(* Model of the Tennessee litter dashboard (app.py).                       *)
(*                                                                         *)
(* The script is re-executed from top to bottom on every interaction.  The *)
(* two loaders are cached, so the loaded tables are computed once; every   *)
(* later pass reads them and renders, in this order: the county map, the   *)
(* monthly trend of the selected county, the statewide growth bars and the *)
(* top-10 comparison.  An exception that escapes a tab ends the pass: the  *)
(* views after it are not rendered.                                        *)
(*                                                                         *)
(* Text is held as sequences of one-character strings so that str.strip()  *)
(* is computed, not assumed.  Metric values are non-negative integers.     *)
(* The yearly county trend and the KPI cards write nothing that the other  *)
(* views read and are left out.                                            *)
(***************************************************************************)
EXTENDS Integers, Sequences, FiniteSets

VARIABLES
    yearly_state_csv,    \* rows of data/yearly_state.csv
    yearly_county_csv,   \* raw rows of data/yearly_county.csv
    monthly_county_csv,  \* [status, rows]: data/monthly_county.csv as found on disk
    df_state,            \* loaded state-year table
    df_map,              \* loaded county-year table
    df_monthly_county,   \* loaded county-month table
    year,                \* selected fiscal year
    metric,              \* selected map metric
    selected_county,     \* selected county
    map_view,            \* what the centre column of the overview tab shows
    monthly_view,        \* what the monthly trend block shows
    growth_view,         \* what the trends tab shows
    compare_view         \* what the comparisons tab shows

vars == <<yearly_state_csv, yearly_county_csv, monthly_county_csv, df_state, df_map,
          df_monthly_county, year, metric, selected_county,
          map_view, monthly_view, growth_view, compare_view>>

----------------------------------------------------------------------------
(* Bounds of the model. *)

MaxStateRows == 3
MaxCountyRows == 2
MaxMonthRows == 3

----------------------------------------------------------------------------
(* Text *)

\* A str is the sequence of its Unicode code points.

\* The characters str.strip() removes: those for which str.isspace() holds.
Whitespace ==
    (9..13) \cup (28..32) \cup {133, 160, 5760} \cup (8192..8202)
        \cup {8232, 8233, 8239, 8287, 12288}

Anderson == <<65, 110, 100, 101, 114, 115, 111, 110>>
Knox == <<75, 110, 111, 120>>
\* "\xa0Knox\r\n"
KnoxPadded == <<160, 75, 110, 111, 120, 13, 10>>

RECURSIVE LStrip(_)
LStrip(s) ==
    IF s # <<>> /\ Head(s) \in Whitespace THEN LStrip(Tail(s)) ELSE s

RECURSIVE RStrip(_)
RStrip(s) ==
    IF s # <<>> /\ s[Len(s)] \in Whitespace
    THEN RStrip(SubSeq(s, 1, Len(s) - 1))
    ELSE s

\* str.strip()
Strip(s) == RStrip(LStrip(s))

\* Python's order on str: by code point, a proper prefix first.
RECURSIVE StrLess(_, _)
StrLess(a, b) ==
    IF b = <<>> THEN FALSE
    ELSE IF a = <<>> THEN TRUE
    ELSE IF Head(a) # Head(b) THEN Head(a) < Head(b)
    ELSE StrLess(Tail(a), Tail(b))

----------------------------------------------------------------------------
(* Table helpers *)

Range(s) == {s[i] : i \in 1..Len(s)}

\* df[mask]: the rows whose index is in Keep, in table order.
SelectRows(t, Keep) ==
    LET n == Cardinality(Keep)
        at == [k \in 1..n |->
                 CHOOSE i \in Keep : Cardinality({j \in Keep : j < i}) = k - 1]
    IN  [k \in 1..n |-> t[at[k]]]

MaxOf(S) == CHOOSE x \in S : \A y \in S : y <= x

RemoveAt(t, i) == SubSeq(t, 1, i - 1) \o SubSeq(t, i + 1, Len(t))

RECURSIVE SortKeyed(_)
\* Every ordering of keyed rows by ascending key: the next row is any of the
\* rows left that hold the least key.
SortKeyed(ps) ==
    IF ps = <<>> THEN {<<>>}
    ELSE LET least == {i \in 1..Len(ps) :
                          \A j \in 1..Len(ps) : ps[i].key <= ps[j].key}
         IN  UNION {{<<ps[i]>> \o rest : rest \in SortKeyed(RemoveAt(ps, i))} :
                      i \in least}

\* DataFrame.sort_values(by) with the default kind="quicksort", which is not
\* stable: the result is some ordering of the rows by ascending key (by[i] is
\* the key of row i); rows with equal keys come in an order the sort does not
\* fix.
SortValues(t, by) ==
    LET keyed == [i \in 1..Len(t) |-> [key |-> by[i], row |-> t[i]]]
    IN  {[i \in 1..Len(s) |-> s[i].row] : s \in SortKeyed(keyed)}

\* DataFrame.head(n)
Head_n(t, n) == SubSeq(t, 1, IF Len(t) < n THEN Len(t) ELSE n)

----------------------------------------------------------------------------
(* Loading (cached: runs once) *)

\* load_yearly_data: the state-year table as read.
LoadYearlyState(csv) == csv

\* load_yearly_data: the county-year table, county names stripped.
LoadYearlyCounty(csv) ==
    [i \in 1..Len(csv) |-> [csv[i] EXCEPT !.county = Strip(@)]]

\* load_monthly_data: read_csv raised (file missing or unparsable) gives an
\* empty frame; otherwise the rows as read.
LoadMonthlyCounty(file) ==
    IF file.status = "ok" THEN file.rows ELSE <<>>

\* years = sorted(df_state["year"].unique()), as a set
Years(dfs) == {r.year : r \in Range(dfs)}

\* counties = sorted(df_map["county"].unique()), as a set
Counties(dfm) == {r.county : r \in Range(dfm)}

Metrics == {"litter", "recycled", "dumps"}

\* st.selectbox(..., index=len(years) - 1)
DefaultYear(dfs) == MaxOf(Years(dfs))

\* st.radio: the first option
DefaultMetric == "litter"

\* index=counties.index("Anderson") if "Anderson" in counties else 0
DefaultCounty(dfm) ==
    IF Anderson \in Counties(dfm) THEN Anderson
    ELSE CHOOSE c \in Counties(dfm) :
            \A o \in Counties(dfm) : o = c \/ StrLess(c, o)

----------------------------------------------------------------------------
(* Overview tab: county map *)

labels == <<"Very Low", "Low", "Medium", "High", "Very High">>

\* bins = [0, 0.2 * max_val, ..., 0.8 * max_val, max_val], held in fifths of a
\* unit: with integer data a bin edge that is a whole number is computed
\* exactly in binary floating point, and one that is not lies strictly between
\* two data values, so comparing in fifths gives what the float compare gives.
Bins(max_val) == [j \in 1..6 |-> (j - 1) * max_val]

Fifths(v) == 5 * v

\* pd.cut with right=True and no include_lowest: the lowest edge is open.
CutOneOpenLowest(v, bins) ==
    LET ids == Cardinality({i \in 1..Len(bins) : bins[i] < v})
    IN  IF ids = 0 \/ ids = Len(bins) THEN "NaN" ELSE labels[ids]

\* One value through pd.cut(right=True, include_lowest=True):
\* ids = bins.searchsorted(x, side="left"); ids[x == bins[0]] = 1;
\* ids of 0 or len(bins) are out of range (NaN).
CutOne(v, bins) ==
    LET ids0 == Cardinality({i \in 1..Len(bins) : bins[i] < v})
        ids == IF v = bins[1] THEN 1 ELSE ids0
    IN  IF ids = 0 \/ ids = Len(bins) THEN "NaN" ELSE labels[ids]

\* pd.cut(x, bins, labels, include_lowest=True): raises ValueError when the
\* edges decrease or (duplicates="raise") when two edges are equal.
Cut(x, bins) ==
    IF \E i \in 1..(Len(bins) - 1) : bins[i + 1] < bins[i]
    THEN [error |-> "ValueError", values |-> <<>>]
    ELSE IF Cardinality(Range(bins)) < Len(bins) /\ Len(bins) # 2
    THEN [error |-> "ValueError", values |-> <<>>]
    ELSE [error |-> "none",
          values |-> [i \in 1..Len(x) |-> CutOne(x[i], bins)]]

Palette(m) ==
    IF m = "litter"
    THEN <<"#fff5eb", "#fdd0a2", "#fdae6b", "#e6550d", "#a63603">>
    ELSE IF m = "recycled"
    THEN <<"#edf8e9", "#bae4b3", "#74c476", "#31a354", "#006d2c">>
    ELSE <<"#eff3ff", "#bdd7e7", "#6baed6", "#3182bd", "#08519c">>

\* d = df_map[df_map["year"] == year]
YearSlice(dfm, y) == SelectRows(dfm, {i \in 1..Len(dfm) : dfm[i].year = y})

WithIntensity(r, v) ==
    [county |-> r.county, year |-> r.year, litter |-> r.litter,
     recycled |-> r.recycled, dumps |-> r.dumps, Intensity |-> v]

\* The centre column: the choropleth, st.warning for an empty slice, or the
\* exception pd.cut raised.
TabOverviewMap(dfm, y, m) ==
    LET d == YearSlice(dfm, y)
    IN  IF d = <<>>
        THEN [kind |-> "warning", rows |-> <<>>, palette |-> <<>>]
        ELSE LET max_val == MaxOf({d[i][m] : i \in 1..Len(d)})
                 cut == Cut([i \in 1..Len(d) |-> Fifths(d[i][m])], Bins(max_val))
             IN  IF cut.error # "none"
                 THEN [kind |-> "exception", rows |-> <<>>, palette |-> <<>>]
                 ELSE [kind |-> "chart",
                       rows |-> [i \in 1..Len(d) |->
                                   WithIntensity(d[i], cut.values[i])],
                       palette |-> Palette(m)]

----------------------------------------------------------------------------
(* Overview tab: monthly trend of the selected county *)

month_order ==
    <<"July", "Aug", "Sept", "Oct", "Nov", "Dec",
      "Jan", "Feb", "Mar", "Apr", "May", "June">>

\* The twelve names in alphabetical order.
AlphabeticalOrder ==
    <<"Apr", "Aug", "Dec", "Feb", "Jan", "July",
      "June", "Mar", "May", "Nov", "Oct", "Sept">>

\* Sorting the plain strings: what sort_values("month") does without the
\* ordered categorical.
MonthCodeAlphabetical(m) ==
    IF \E i \in 1..12 : AlphabeticalOrder[i] = m
    THEN CHOOSE i \in 1..12 : AlphabeticalOrder[i] = m
    ELSE 13

\* The sort key of pd.Categorical(month, categories=month_order, ordered=True):
\* the position in month_order; a name outside it is NaN and sorts last.
MonthCode(m) ==
    IF \E i \in 1..Len(month_order) : month_order[i] = m
    THEN CHOOSE i \in 1..Len(month_order) : month_order[i] = m
    ELSE Len(month_order) + 1

\* The value the categorical column holds.
AsCategory(m) == IF m \in Range(month_order) THEN m ELSE "NaN"

\* The "month" column as sort keys.
MonthKeys(t) == [i \in 1..Len(t) |-> MonthCode(t[i].month)]

TabOverviewMonthly(dfmc, c, y) ==
    IF dfmc = <<>>
    THEN {[kind |-> "nothing", rows |-> <<>>]}
    ELSE LET df_cty_month ==
                 SelectRows(dfmc, {i \in 1..Len(dfmc) :
                                     dfmc[i].county = c /\ dfmc[i].year = y})
         IN  IF df_cty_month # <<>>
             THEN {[kind |-> "chart",
                    rows |-> [i \in 1..Len(s) |->
                                [s[i] EXCEPT !.month = AsCategory(@)]]] :
                      s \in SortValues(df_cty_month, MonthKeys(df_cty_month))}
             ELSE {[kind |-> "info", rows |-> <<>>]}

----------------------------------------------------------------------------
(* Trends tab: year-over-year recycling growth *)

(* IEEE 754 binary64 arithmetic, round to nearest, ties to even.  A float is *)
(* [neg, man, exp]: the value (-1)^neg * N * 2^exp, where man gives the      *)
(* natural number N in base 65536 (16 binary digits to a place), least       *)
(* significant place first, no leading zero.  Values stay far from the       *)
(* overflow and subnormal ranges.                                            *)

Zeros(n) == [i \in 1..n |-> 0]

\* Without the leading (most significant) zeros.
Trim(x) ==
    LET nonzero == {i \in 1..Len(x) : x[i] # 0}
    IN  IF nonzero = {} THEN <<>> ELSE SubSeq(x, 1, MaxOf(nonzero))

\* A natural number (below 2^31, as every integer here) in base 65536.
NatDigits(n) == Trim(<<n % 65536, n \div 65536>>)

RECURSIVE AddDigits(_, _, _)
\* x + y + carry.
AddDigits(x, y, carry) ==
    IF x = <<>> /\ y = <<>> THEN NatDigits(carry)
    ELSE LET dx == IF x = <<>> THEN 0 ELSE Head(x)
             dy == IF y = <<>> THEN 0 ELSE Head(y)
             sum == dx + dy + carry
         IN  <<sum % 65536>> \o
             AddDigits(IF x = <<>> THEN <<>> ELSE Tail(x),
                       IF y = <<>> THEN <<>> ELSE Tail(y),
                       sum \div 65536)

RECURSIVE SubDigitsFrom(_, _, _)
SubDigitsFrom(x, y, borrow) ==
    IF x = <<>> THEN <<>>
    ELSE LET dy == IF y = <<>> THEN 0 ELSE Head(y)
             diff == Head(x) - dy - borrow
         IN  <<diff % 65536>> \o
             SubDigitsFrom(Tail(x), IF y = <<>> THEN <<>> ELSE Tail(y),
                           IF diff < 0 THEN 1 ELSE 0)

\* x - y, for x >= y.
SubDigits(x, y) == Trim(SubDigitsFrom(x, y, 0))

RECURSIVE MulDigits(_, _, _)
\* x * k + carry, for a natural k below 2^15.
MulDigits(x, k, carry) ==
    IF x = <<>> THEN NatDigits(carry)
    ELSE LET prod == Head(x) * k + carry
         IN  <<prod % 65536>> \o MulDigits(Tail(x), k, prod \div 65536)

\* x >= y, both without leading zeros.
DigitsGE(x, y) ==
    \/ Len(x) > Len(y)
    \/ /\ Len(x) = Len(y)
       /\ \/ x = y
          \/ LET top == MaxOf({i \in 1..Len(x) : x[i] # y[i]})
             IN  x[top] > y[top]

\* The number of binary digits of x.
BitLen(x) ==
    IF x = <<>> THEN 0
    ELSE 16 * (Len(x) - 1) +
         (CHOOSE k \in 1..16 : 2 ^ (k - 1) <= x[Len(x)] /\ x[Len(x)] < 2 ^ k)

\* The binary digit of x at place i, the least significant being place 1.
BitAt(x, i) ==
    LET at == (i - 1) \div 16 + 1
    IN  IF i < 1 \/ at > Len(x) THEN 0
        ELSE (x[at] \div 2 ^ ((i - 1) % 16)) % 2

\* Whether any of the d lowest binary digits of x is 1.
LowBitsSet(x, d) ==
    \E i \in 1..Len(x) :
        \/ i <= d \div 16 /\ x[i] # 0
        \/ i = d \div 16 + 1 /\ x[i] % 2 ^ (d % 16) # 0

\* x without its d lowest binary digits.
ShiftRight(x, d) ==
    LET a == d \div 16
        b == d % 16
    IN  Trim([i \in 1..(Len(x) - a) |->
                x[i + a] \div 2 ^ b +
                (IF i + a < Len(x)
                 THEN (x[i + a + 1] % 2 ^ b) * 2 ^ (16 - b)
                 ELSE 0)])

\* x with d zeros below it.
ShiftLeft(x, d) == MulDigits(Zeros(d \div 16) \o x, 2 ^ (d % 16), 0)

\* The float nearest to (N + f) * 2^exp, where x gives N and f is a fraction
\* in [0, 1) that is not zero exactly when sticky: 53 significant binary
\* digits are kept, the rest decides the rounding, halves go to the even
\* neighbour.
Round53(neg, x, exp, sticky) ==
    IF BitLen(x) <= 53 THEN [neg |-> neg, man |-> x, exp |-> exp]
    ELSE LET drop == BitLen(x) - 53
             kept == ShiftRight(x, drop)
             guard == BitAt(x, drop) = 1
             rest == sticky \/ LowBitsSet(x, drop - 1)
             up == guard /\ (rest \/ kept[1] % 2 = 1)
         IN  [neg |-> neg,
              man |-> IF up THEN AddDigits(kept, <<>>, 1) ELSE kept,
              exp |-> exp + drop]

RECURSIVE DivStep(_, _, _, _)
\* k more binary digits of rem / p (rem < p) put below those of digit, with
\* what is left of the dividend.  2 * rem is compared with p, and reduced by
\* it, without leaving the range of rem and p.
DivStep(rem, p, k, digit) ==
    IF k = 0 THEN [digit |-> digit, rem |-> rem]
    ELSE IF rem >= p - rem
         THEN DivStep(rem - (p - rem), p, k - 1, 2 * digit + 1)
         ELSE DivStep(rem + rem, p, k - 1, 2 * digit)

RECURSIVE LongDiv(_, _, _, _)
\* n more places of rem / p (rem < p) put below the places in acc, with what
\* is left of the dividend.
LongDiv(rem, p, n, acc) ==
    IF n = 0 THEN [man |-> acc, rem |-> rem]
    ELSE LET s == DivStep(rem, p, 16, 0)
         IN  LongDiv(s.rem, p, n - 1, <<s.digit>> \o acc)

\* float(c) / float(p) for integers c >= 0 and p > 0: the quotient to 96
\* binary places, which is more than 53 significant digits whenever it is
\* not exact (p < 2^31), rounded once.
FloatDiv(c, p) ==
    LET d == LongDiv(c % p, p, 6, NatDigits(c \div p))
    IN  Round53(FALSE, Trim(d.man), 0 - 96, d.rem # 0)

\* q - 1.0 for a float q >= 0 with q.exp <= 0.
FloatMinusOne(q) ==
    LET one == ShiftLeft(<<1>>, 0 - q.exp)
    IN  IF DigitsGE(q.man, one)
        THEN Round53(FALSE, SubDigits(q.man, one), q.exp, FALSE)
        ELSE Round53(TRUE, SubDigits(one, q.man), q.exp, FALSE)

\* f * k for a natural k below 2^15.
FloatTimes(f, k) == Round53(f.neg, MulDigits(f.man, k, 0), f.exp, FALSE)

\* numpy.rint(f): the nearest integer, halves to the even one.  The result
\* is [neg, man], the sign and the size of the integer, the size in base
\* 65536 like a mantissa; rint keeps the sign of a figure it rounds to zero.
FloatRint(f) ==
    LET d == 0 - f.exp
        whole == IF d <= 0 THEN ShiftLeft(f.man, f.exp)
                 ELSE ShiftRight(f.man, d)
        guard == d > 0 /\ BitAt(f.man, d) = 1
        rest == d > 1 /\ LowBitsSet(f.man, d - 1)
        odd == whole # <<>> /\ whole[1] % 2 = 1
        up == guard /\ (rest \/ odd)
    IN  [neg |-> f.neg,
         man |-> IF up THEN AddDigits(whole, <<>>, 1) ELSE whole]

NaN == [kind |-> "nan", val |-> [neg |-> FALSE, man |-> <<>>, exp |-> 0]]

\* One element of Series.pct_change(): cur / prev - 1 in float64.
\* 0 / 0 is NaN, x / 0 is +inf for x > 0.
PctChangeOf(prev, cur) ==
    IF prev = 0
    THEN IF cur = 0 THEN NaN
         ELSE [kind |-> "inf", val |-> [neg |-> FALSE, man |-> <<>>, exp |-> 0]]
    ELSE [kind |-> "finite", val |-> FloatMinusOne(FloatDiv(cur, prev))]

\* df_state_sorted["recycled"].pct_change(): the first row has no prior row.
PctChange(t) ==
    [i \in 1..Len(t) |->
        IF i = 1 THEN NaN
        ELSE PctChangeOf(t[i - 1].recycled, t[i].recycled)]

\* (recycle_growth_pct * 100).round(1): the product by 100, then numpy's
\* round to one decimal, rint(x * 10) / 10.  The result is held as the
\* integer rint gives, the growth in tenths of a percent; +inf stays +inf.
GrowthPercent(p) ==
    IF p.kind = "inf"
    THEN [inf |-> TRUE, tenths |-> [neg |-> FALSE, man |-> <<>>]]
    ELSE [inf |-> FALSE,
          tenths |-> FloatRint(FloatTimes(FloatTimes(p.val, 100), 10))]

\* A sign test that leaves zero growth out of the green bars.
ColorStrict(g) ==
    IF g.inf \/ (~g.tenths.neg /\ g.tenths.man # <<>>)
    THEN "#2ca02c" ELSE "#d62728"

\* lambda x: "#2ca02c" if x >= 0 else "#d62728"; -0.0 >= 0 holds.
Color(g) ==
    IF g.inf \/ ~g.tenths.neg \/ g.tenths.man = <<>>
    THEN "#2ca02c" ELSE "#d62728"

\* df_growth: the rows of the sorted table whose pct_change is not NaN, with
\* growth_percent and color.
GrowthBars(df_state_sorted) ==
    LET pct == PctChange(df_state_sorted)
        kept == SelectRows([i \in 1..Len(df_state_sorted) |-> i],
                           {i \in 1..Len(df_state_sorted) : pct[i].kind # "nan"})
    IN  [k \in 1..Len(kept) |->
            LET g == GrowthPercent(pct[kept[k]])
            IN  [year |-> df_state_sorted[kept[k]].year,
                 inf |-> g.inf,
                 growth_percent |-> g.tenths,
                 color |-> Color(g)]]

\* The "year" column as sort keys.
YearKeys(t) == [i \in 1..Len(t) |-> t[i].year]

TabTrends(dfs) ==
    {[kind |-> "chart", bars |-> GrowthBars(s)] : s \in SortValues(dfs, YearKeys(dfs))}

----------------------------------------------------------------------------
(* Comparisons tab *)

TopN == 10

\* df_map[df_map["year"] == year].sort_values(metric, ascending=False).head(10)
\* The bar chart is built whatever the number of rows.
TabCompare(dfm, y, m) ==
    LET d == YearSlice(dfm, y)
        descending == [i \in 1..Len(d) |-> 0 - d[i][m]]
    IN  {[kind |-> "chart", rows |-> Head_n(s, TopN)] :
            s \in SortValues(d, descending)}

----------------------------------------------------------------------------
(* One pass of the script *)

NotRun == [kind |-> "not_run", rows |-> <<>>]
NotRunTrends == [kind |-> "not_run", bars |-> <<>>]

\* What a pass can show.  The ValueError of pd.cut is not caught: it ends the
\* pass before the monthly trend, the trends tab and the comparisons tab.
RenderPass(dfs, dfm, dfmc, y, m, c) ==
    LET mv == TabOverviewMap(dfm, y, m)
    IN  IF mv.kind = "exception"
        THEN {[map_view |-> mv, monthly_view |-> NotRun,
               growth_view |-> NotRunTrends, compare_view |-> NotRun]}
        ELSE {[map_view |-> mv, monthly_view |-> mo,
               growth_view |-> g, compare_view |-> t] :
                 mo \in TabOverviewMonthly(dfmc, c, y),
                 g \in TabTrends(dfs),
                 t \in TabCompare(dfm, y, m)}

\* A pass that sorts the cached state table where it lies.
DfStateSortedInPlace(dfs) == CHOOSE s \in SortValues(dfs, YearKeys(dfs)) : TRUE

\* df_state after a pass: sort_values returns a new frame, and the growth
\* column is assigned to that frame.
DfStateAfterPass(dfs) == dfs

\* df_map after a pass: Intensity is assigned to d, a copy of the slice.
DfMapAfterPass(dfm) == dfm

\* df_monthly_county after a pass: the categorical month is assigned to a copy.
DfMonthlyAfterPass(dfmc) == dfmc

Rerun(y, m, c) ==
    /\ year' = y
    /\ metric' = m
    /\ selected_county' = c
    /\ \E out \in RenderPass(df_state, df_map, df_monthly_county, y, m, c) :
          /\ map_view' = out.map_view
          /\ monthly_view' = out.monthly_view
          /\ growth_view' = out.growth_view
          /\ compare_view' = out.compare_view
    /\ df_state' = DfStateAfterPass(df_state)
    /\ df_map' = DfMapAfterPass(df_map)
    /\ df_monthly_county' = DfMonthlyAfterPass(df_monthly_county)
    /\ UNCHANGED <<yearly_state_csv, yearly_county_csv, monthly_county_csv>>

ChangeYear ==
    \E y \in Years(df_state) \ {year} : Rerun(y, metric, selected_county)

ChangeMetric ==
    \E m \in Metrics \ {metric} : Rerun(year, m, selected_county)

ChangeCounty ==
    \E c \in Counties(df_map) \ {selected_county} : Rerun(year, metric, c)

Next == ChangeYear \/ ChangeMetric \/ ChangeCounty

----------------------------------------------------------------------------
(* Inputs *)

BoundedSeq(S, n) == UNION {[1..k -> S] : k \in 0..n}

StateRow(y, r) == [year |-> y, recycled |-> r]

CountyRow(c, y, l, r, d) ==
    [county |-> c, year |-> y, litter |-> l, recycled |-> r, dumps |-> d]

MonthRow(c, y, mo) ==
    [county |-> c, year |-> y, month |-> mo, litter |-> 4, recycled |-> 2]

DefaultStateCsv == <<StateRow(2019, 100), StateRow(2020, 110)>>

DefaultCountyCsv ==
    <<CountyRow(Anderson, 2019, 2, 1, 1),
      CountyRow(Anderson, 2020, 5, 3, 0),
      CountyRow(KnoxPadded, 2020, 3, 3, 0)>>

MissingFile == [status |-> "missing", rows |-> <<>>]
MalformedFile == [status |-> "malformed", rows |-> <<>>]

\* The state after the files are loaded and the first pass has run with the
\* default selection.
Loaded(state_csv, county_csv, monthly_file) ==
    /\ yearly_state_csv = state_csv
    /\ yearly_county_csv = county_csv
    /\ monthly_county_csv = monthly_file
    /\ df_state = LoadYearlyState(state_csv)
    /\ df_map = LoadYearlyCounty(county_csv)
    /\ df_monthly_county = LoadMonthlyCounty(monthly_file)
    /\ year = DefaultYear(df_state)
    /\ metric = DefaultMetric
    /\ selected_county = DefaultCounty(df_map)
    /\ \E out \in RenderPass(df_state, df_map, df_monthly_county,
                             year, metric, selected_county) :
          /\ map_view = out.map_view
          /\ monthly_view = out.monthly_view
          /\ growth_view = out.growth_view
          /\ compare_view = out.compare_view

\* State tables: one row per year 2019, 2020, ..., written in
\* ascending or in descending order.
RecycledValues == {0, 29, 80, 2999, 3000}

Reverse(t) == [i \in 1..Len(t) |-> t[Len(t) + 1 - i]]

StateTables ==
    LET asc == UNION {{[i \in 1..n |-> StateRow(2018 + i, v[i])] :
                          v \in [1..n -> RecycledValues]} :
                      n \in 1..MaxStateRows}
    IN  asc \cup {Reverse(t) : t \in asc}

ExampleStateCsv ==
    <<StateRow(2019, 100), StateRow(2020, 110),
      StateRow(2021, 99), StateRow(2022, 150)>>

InitTrends ==
    \E t \in StateTables \cup {ExampleStateCsv} :
        Loaded(t, DefaultCountyCsv, MissingFile)

CountyRowSpace ==
    {CountyRow(c, y, l, 0, 1) :
        c \in {Anderson, KnoxPadded}, y \in {2019, 2020}, l \in {0, 2, 5}}

InitCounty ==
    \E t \in BoundedSeq(CountyRowSpace, MaxCountyRows) \ {<<>>} :
        Loaded(DefaultStateCsv, t, MissingFile)

MonthRowSpace ==
    {MonthRow(Anderson, 2020, "Dec"), MonthRow(Anderson, 2020, "July"),
     MonthRow(Anderson, 2020, "Jan"), MonthRow(Anderson, 2019, "Apr"),
     MonthRow(Knox, 2020, "Aug"), MonthRow(KnoxPadded, 2020, "Sept")}

MonthlyFiles ==
    {MissingFile, MalformedFile}
        \cup {[status |-> "ok", rows |-> t] :
                t \in BoundedSeq(MonthRowSpace, MaxMonthRows)}

InitMonthly ==
    \E f \in MonthlyFiles : Loaded(DefaultStateCsv, DefaultCountyCsv, f)

Init == InitTrends \/ InitCounty \/ InitMonthly

Spec == Init /\ [][Next]_vars
SpecTrends == InitTrends /\ [][Next]_vars
SpecCounty == InitCounty /\ [][Next]_vars
SpecMonthly == InitMonthly /\ [][Next]_vars

----------------------------------------------------------------------------
(* Properties *)

Permutations(n) ==
    {p \in [1..n -> 1..n] : \A i, j \in 1..n : p[i] = p[j] => i = j}

\* The rows of the county-year table for the selected year, by index.
SliceIndex == {i \in 1..Len(df_map) : df_map[i].year = year}

SliceValues == {df_map[i][metric] : i \in SliceIndex}

\* The largest value of the selected metric in the slice is mx.
IsSliceMax(mx) == mx \in SliceValues /\ \A v \in SliceValues : v <= mx

\* v lies in the j-th of the five intervals [0, mx/5], (mx/5, 2mx/5], ...,
\* (4mx/5, mx].
InInterval(j, v, mx) ==
    IF j = 1 THEN 0 <= 5 * v /\ 5 * v <= mx
    ELSE (j - 1) * mx < 5 * v /\ 5 * v <= j * mx

IntensityNames == <<"Very Low", "Low", "Medium", "High", "Very High">>

\* C1: when the slice of the selected year is not empty and the largest value
\* of the selected metric in it is 0, the map is drawn without an exception
\* and every row of the slice is labelled "Very Low".
C1_ZeroMaxAllVeryLow ==
    (SliceIndex # {} /\ IsSliceMax(0)) =>
        /\ map_view.kind = "chart"
        /\ Len(map_view.rows) = Cardinality(SliceIndex)
        /\ \A i \in 1..Len(map_view.rows) :
              map_view.rows[i].Intensity = "Very Low"

\* C2: when the county-year table has no row for the selected year, the map
\* and the comparison both show a no-data result: neither raises and neither
\* builds a chart over the empty slice.
C2_EmptySliceNoData ==
    (SliceIndex = {}) =>
        /\ map_view.kind = "warning"
        /\ compare_view.kind \notin {"chart", "exception", "not_run"}

\* The rows of d by descending metric m, equal values in table order.
StableDescending(d, m) ==
    LET n == Len(d)
        p == CHOOSE q \in Permutations(n) :
                \A i \in 1..(n - 1) :
                    \/ d[q[i]][m] > d[q[i + 1]][m]
                    \/ d[q[i]][m] = d[q[i + 1]][m] /\ q[i] < q[i + 1]
    IN  [i \in 1..n |-> d[p[i]]]

C9_BinningByInterval ==
    \A mx \in SliceValues :
        (IsSliceMax(mx) /\ mx > 0) =>
            /\ \A j \in 0..4 : j * mx <= (j + 1) * mx
            /\ \A v \in 0..mx :
                  Cardinality({j \in 1..5 : InInterval(j, v, mx)}) = 1
            /\ map_view.kind = "chart"
            /\ Len(map_view.rows) = Cardinality(SliceIndex)
            /\ \A i \in 1..Len(map_view.rows) :
                  LET r == map_view.rows[i]
                      src == SelectRows(df_map, SliceIndex)[i]
                  IN  /\ r.county = src.county /\ r.year = src.year
                      /\ r[metric] = src[metric]
                      /\ \E j \in 1..5 :
                            /\ InInterval(j, r[metric], mx)
                            /\ r.Intensity = IntensityNames[j]

\* A map whose slice holds the largest value (Very High), a value exactly on
\* the edge 2mx/5 (Low) and the metric is the one selected.
C9_Witness ==
    /\ map_view.kind = "chart"
    /\ \E i, j \in 1..Len(map_view.rows) :
          /\ map_view.rows[i].Intensity = "Very High"
          /\ map_view.rows[j].Intensity = "Low"
          /\ 5 * map_view.rows[j][metric] = 2 * map_view.rows[i][metric]
    /\ \E mx \in SliceValues : IsSliceMax(mx) /\ mx > 0

\* The row of the state-year table for year y, and the year before it in
\* the table.
StateRowOf(y) == CHOOSE r \in Range(df_state) : r.year = y

PrecedingYears(y) == {z \in Years(df_state) : z < y}

Abs(x) == IF x < 0 THEN 0 - x ELSE x

RECURSIVE DigitsNat(_)
\* The natural number with the base-65536 digits x, least significant first.
DigitsNat(x) ==
    IF x = <<>> THEN 0 ELSE Head(x) + 65536 * DigitsNat(Tail(x))

\* The figure an entry of the growth series carries, in tenths of a percent.
Tenths(b) ==
    IF b.growth_percent.neg THEN 0 - DigitsNat(b.growth_percent.man)
    ELSE DigitsNat(b.growth_percent.man)

Green == "#2ca02c"
Red == "#d62728"

\* C3: the growth series has one entry per year other than the earliest,
\* (number of years - 1) entries in all, and the earliest year is not in it.
C3_OneEntryPerLaterYear ==
    growth_view.kind = "chart" =>
        /\ Len(growth_view.bars) = Cardinality(Years(df_state)) - 1
        /\ \A k \in 1..Len(growth_view.bars) :
              PrecedingYears(growth_view.bars[k].year) # {}

\* C8: every entry of the growth series is for a year that has a preceding
\* year; it carries the change of recycled relative to that year in percent,
\* rounded to one decimal (within half a tenth of the exact figure; +inf when
\* the preceding value is 0), and it is green (positive) exactly when the
\* figure it carries is >= 0 and red (negative) otherwise.  For 2019-2022
\* with recycled 100, 110, 99, 150 the series is (2020, +10.0, positive),
\* (2021, -10.0, negative), (2022, +51.5, positive).
C8_GrowthRoundedAndTagged ==
    growth_view.kind = "chart" =>
        /\ \A k \in 1..Len(growth_view.bars) :
              LET b == growth_view.bars[k]
                  before == PrecedingYears(b.year)
              IN  /\ before # {}
                  /\ LET prev == StateRowOf(MaxOf(before)).recycled
                         cur == StateRowOf(b.year).recycled
                     IN  IF prev = 0
                         THEN b.inf /\ cur > 0
                         ELSE /\ ~b.inf
                              /\ 2 * Abs(Tenths(b) * prev
                                         - 1000 * (cur - prev)) <= prev
                  /\ b.color \in {Green, Red}
                  /\ b.color = Green <=> (b.inf \/ Tenths(b) >= 0)
        /\ df_state = ExampleStateCsv =>
              /\ Len(growth_view.bars) = 3
              /\ [k \in 1..3 |-> growth_view.bars[k].year]
                     = <<2020, 2021, 2022>>
              /\ [k \in 1..3 |-> Tenths(growth_view.bars[k])]
                     = <<100, -100, 515>>
              /\ [k \in 1..3 |-> growth_view.bars[k].color]
                     = <<Green, Red, Green>>
              /\ \A k \in 1..3 : ~growth_view.bars[k].inf

\* The growth bars of the 2019-2022 example, after a change of selection.
C8_Witness ==
    /\ df_state = ExampleStateCsv
    /\ growth_view.kind = "chart"
    /\ Len(growth_view.bars) = 3
    /\ year # 2022

\* A whitespace character, by code point.
IsSpace(c) ==
    \/ c \in 9..13 \/ c \in 28..32 \/ c \in 8192..8202
    \/ c \in {133, 160, 5760, 8232, 8233, 8239, 8287, 12288}

\* No leading and no trailing whitespace.
Trimmed(name) ==
    name = <<>> \/ (~IsSpace(name[1]) /\ ~IsSpace(name[Len(name)]))

\* C5: when the county-month file is missing or malformed, the loaded
\* county-month table is empty and a pass that reaches the monthly trend
\* shows an informational message there.
C5_MissingMonthlyShowsInfo ==
    (monthly_county_csv.status \in {"missing", "malformed"}
        /\ map_view.kind # "exception") =>
        /\ df_monthly_county = <<>>
        /\ monthly_view.kind = "info"

\* C6: every county name of the loaded county-year and county-month tables
\* has no leading or trailing whitespace.
C6_CountyNamesTrimmed ==
    /\ \A i \in 1..Len(df_map) : Trimmed(df_map[i].county)
    /\ \A i \in 1..Len(df_monthly_county) :
          Trimmed(df_monthly_county[i].county)

\* The fiscal sequence of months.
FiscalSequence ==
    <<"July", "Aug", "Sept", "Oct", "Nov", "Dec",
      "Jan", "Feb", "Mar", "Apr", "May", "June">>

FiscalIndex(mo) == CHOOSE i \in 1..12 : FiscalSequence[i] = mo

\* The county-month rows of the selected county and year, by index.
MonthMatch ==
    {i \in 1..Len(df_monthly_county) :
        /\ df_monthly_county[i].county = selected_county
        /\ df_monthly_county[i].year = year}

\* C7: in a pass that reaches the monthly trend, the rows fed to it are the
\* rows of the county-month table that match the selected county and year,
\* each once, in the order July, Aug, Sept, Oct, Nov, Dec, Jan, Feb, Mar,
\* Apr, May, June of their months, whatever their order in the table; a
\* chart is fed exactly when some row matches.
C7_MonthlyRowsFiscalOrder ==
    map_view.kind # "exception" =>
        /\ monthly_view.kind = "chart" <=> MonthMatch # {}
        /\ monthly_view.kind = "chart" =>
              LET rows == monthly_view.rows
                  n == Cardinality(MonthMatch)
                  matched == SelectRows(df_monthly_county, MonthMatch)
              IN  /\ Len(rows) = n
                  /\ \E p \in Permutations(n) :
                        \A k \in 1..n : rows[k] = matched[p[k]]
                  /\ \A k \in 1..(n - 1) :
                        FiscalIndex(rows[k].month)
                            <= FiscalIndex(rows[k + 1].month)

\* County-month rows read in the order Dec, July, Jan and fed to the chart
\* in the order July, Dec, Jan.
C7_Witness ==
    /\ monthly_view.kind = "chart"
    /\ Len(monthly_view.rows) = 3
    /\ [k \in 1..3 |-> SelectRows(df_monthly_county, MonthMatch)[k].month]
          = <<"Dec", "July", "Jan">>
    /\ [k \in 1..3 |-> monthly_view.rows[k].month] = <<"July", "Dec", "Jan">>

====
